---- MODULE Spec2Model ----
(***************************************************************************)
(* Model of enumerators.py: the range resolver getrange, the typed-slot    *)
(* scanners getstringpos / getcallablepos and the range-taking enumerator  *)
(* generators (Texts, NonFuncs, Undefs, Binaries, Addrs, BytesThat, Heads, *)
(* NotTails, Funcs, FChunks) over an abstract IDA database.                *)
(*                                                                         *)
(* The database is a linear address space 0 .. MaxAddr-1; BADADDR is the   *)
(* first value past it.  Every address carries one item class (the part of *)
(* idaapi.getFlags the enumerators test), function chunks are disjoint     *)
(* half-open intervals, and a search pattern is represented by the set of  *)
(* addresses it matches.                                                   *)
(*                                                                         *)
(* The module calls isUnknown by its bare name, which it neither defines   *)
(* nor imports: the name resolves only where idc's names are bound in the  *)
(* globals the file runs in (IDA's script namespace) and is a NameError    *)
(* where the file is imported as a module.  idcGlobals holds which of the  *)
(* two environments a run is in.                                           *)
(*                                                                         *)
(* A Python value is a record [t |-> <type name>, v |-> <payload>], the    *)
(* payload being a sequence of numbers: <<n>> for an int or a long, the    *)
(* elements for a tuple, <<startEA, endEA>> for an area_t, <<k>> for the   *)
(* k-th flag predicate for a function, <<>> for a str or None.             *)
(***************************************************************************)
EXTENDS Integers, Sequences, FiniteSets, TLC

\* ------------------------------------------------------------------ bounds
MaxAddr == 4
MaxArgs == 2
MaxChunks == 3
MaxChanges == 2

\* --------------------------------------------------------------- constants
BADADDR == MaxAddr
Addr == 0 .. (MaxAddr - 1)
Ea == 0 .. BADADDR

VARIABLES
    flags,       \* database: item class of every address
    chunks,      \* database: set of function chunks [startEA, endEA, tail]
    matches,     \* database: addresses the search pattern matches
    idcGlobals,  \* environment: are idc's names bound in this module's globals
    sel,         \* UI: <<selection, selfirst, sellast>> of read_selection()
    here,        \* UI: cursor address, idc.here()
    enum,        \* the enumerator (or "getrange") this run calls
    args,        \* the argument list of the call
    pc,          \* position of the call / of the generator
    rng,         \* value returned by getrange (<<>> before it returned)
    first,       \* generator local
    last,        \* generator local
    ea,          \* generator local: ea, or func/chunk .startEA
    nextcode,    \* generator local of NonFuncs
    out,         \* addresses yielded so far
    err,         \* exception that ended the generator ("" if none)
    changes      \* number of database edits made by the consumer

vars == <<flags, chunks, matches, idcGlobals, sel, here, enum, args, pc, rng,
          first, last, ea, nextcode, out, err, changes>>


\* ------------------------------------------------------------ Python values
Val(t, v) == [t |-> t, v |-> v]
IntV(n) == Val("int", <<n>>)
LongV(n) == Val("long", <<n>>)
StrV == Val("str", <<>>)
FuncV(k) == Val("function", <<k>>)
TupleV(s) == Val("tuple", s)
AreaV(s, e) == Val("area_t", <<s, e>>)
NoneV == Val("NoneType", <<>>)

\* ---------------------------------------------------------------- getrange
\* len(args)>i and type(args[i])==types.IntType: a long is not an IntType
IsIntAt(a, i) == Len(a) >= i /\ a[i].t = "int"

argfirstOf(a) == IF IsIntAt(a, 1) THEN a[1].v[1] ELSE -1
arglastOf(a) == IF IsIntAt(a, 2) THEN a[2].v[1] ELSE -1

\* getrange with the selection consulted before the tuple / area_t tests
getrange_selection_first(a, s, h) ==
    IF s[1] /\ argfirstOf(a) = -1 THEN <<s[2], s[3]>>
    ELSE IF Len(a) > 0 /\ a[1].t = "tuple" THEN a[1].v
    ELSE IF Len(a) > 0 /\ a[1].t = "area_t" THEN <<a[1].v[1], a[1].v[2]>>
    ELSE IF argfirstOf(a) = -1 THEN <<h, BADADDR>>
    ELSE IF arglastOf(a) = -1 THEN <<argfirstOf(a), BADADDR>>
    ELSE <<argfirstOf(a), arglastOf(a)>>

\* getrange with the selection used whenever arglast is missing
getrange_selection_last(a, s, h) ==
    IF Len(a) > 0 /\ a[1].t = "tuple" THEN a[1].v
    ELSE IF Len(a) > 0 /\ a[1].t = "area_t" THEN <<a[1].v[1], a[1].v[2]>>
    ELSE IF arglastOf(a) = -1
         THEN IF s[1] THEN <<s[2], s[3]>>
              ELSE <<IF argfirstOf(a) = -1 THEN h ELSE argfirstOf(a), BADADDR>>
    ELSE <<argfirstOf(a), arglastOf(a)>>

\* getrange(args), reading the selection s = <<selection, selfirst, sellast>>
\* and the cursor h.  -1 stands for None in argfirst / arglast.
getrange(a, s, h) ==
    IF Len(a) > 0 /\ a[1].t = "tuple" THEN a[1].v
    ELSE IF Len(a) > 0 /\ a[1].t = "area_t" THEN <<a[1].v[1], a[1].v[2]>>
    ELSE IF argfirstOf(a) = -1
         THEN IF s[1] THEN <<s[2], s[3]>> ELSE <<h, BADADDR>>
    ELSE IF arglastOf(a) = -1 THEN <<argfirstOf(a), BADADDR>>
    ELSE <<argfirstOf(a), arglastOf(a)>>

\* getstringpos answering 0 where it should answer -1
getstringpos_found(a) ==
    LET S == {i \in 1 .. Len(a) : a[i].t = "str"}
    IN  IF S = {} THEN 0 ELSE (CHOOSE i \in S : \A j \in S : i <= j) - 1

\* index of the first str / function argument (0-based), -1 when there is none
getstringpos(a) ==
    LET S == {i \in 1 .. Len(a) : a[i].t = "str"}
    IN  IF S = {} THEN -1 ELSE (CHOOSE i \in S : \A j \in S : i <= j) - 1

getcallablepos(a) ==
    LET S == {i \in 1 .. Len(a) : a[i].t = "function"}
    IN  IF S = {} THEN -1 ELSE (CHOOSE i \in S : \A j \in S : i <= j) - 1

\* ---------------------------------------------------------- host database
Classes == {"code", "data", "tail", "unk"}

isCode(f) == f = "code"
isHead(f) == f \in {"code", "data"}
isTail(f) == f = "tail"
isUnknown(f) == f = "unk"

\* the function objects a caller can pass: 1 = isCode, 2 = isUnknown, 3 = isHead
Callables == 1 .. 3
callable(k, f) ==
    CASE k = 1 -> isCode(f)
      [] k = 2 -> isUnknown(f)
      [] OTHER -> isHead(f)

getFlags(a) == IF a \in Addr THEN flags[a] ELSE "none"

\* smallest element of a set of addresses, BADADDR when there is none
FirstOf(S) == IF S = {} THEN BADADDR ELSE CHOOSE x \in S : \A y \in S : x <= y

SEARCH_NEXT == 2
HasNext(fl) == (fl \div SEARCH_NEXT) % 2 = 1

find_code(e) == FirstOf({a \in Addr : a > e /\ isCode(flags[a])})
find_unknown(e) == FirstOf({a \in Addr : a > e /\ isUnknown(flags[a])})
next_head(e, maxea) == FirstOf({a \in Addr : a > e /\ a < maxea /\ isHead(flags[a])})
next_not_tail(e) == FirstOf({a \in Addr : a > e /\ ~isTail(flags[a])})
nextthat(e, maxea, k) ==
    FirstOf({a \in Addr : a > e /\ a < maxea /\ callable(k, flags[a])})
find_text(e, fl) ==
    FirstOf({a \in matches : IF HasNext(fl) THEN a > e ELSE a >= e})
find_binary(e, maxea, fl) ==
    FirstOf({a \in matches : a < maxea /\ IF HasNext(fl) THEN a > e ELSE a >= e})

Chunk == {c \in [startEA : Addr, endEA : 1 .. MaxAddr, tail : BOOLEAN] :
            c.startEA < c.endEA}
\* None, as returned by get_fchunk / get_next_fchunk / get_next_func
NoChunk == [startEA |-> BADADDR, endEA |-> BADADDR, tail |-> FALSE]

FirstChunk(S) ==
    IF S = {} THEN NoChunk
    ELSE CHOOSE c \in S : \A d \in S : c.startEA <= d.startEA

get_fchunk(e) == FirstChunk({c \in chunks : c.startEA <= e /\ e < c.endEA})
get_next_fchunk(e) == FirstChunk({c \in chunks : c.startEA > e})
get_next_func(e) == FirstChunk({c \in chunks : c.startEA > e /\ ~c.tail})

\* --------------------------------------------------------------- generators
\* pc: "nocall" before the call, "created" once the generator object exists and
\* no code of the body has run, "suspended" / "yield_ea" / "yield_nextcode" at
\* a yield, "done" after a normal return, "raised" after an exception.

Frame == UNCHANGED <<flags, chunks, matches, idcGlobals, sel, here, enum, args,
                     rng, changes>>

GenSet(p, f, l, e, n, o, x) ==
    /\ pc' = p
    /\ first' = f
    /\ last' = l
    /\ ea' = e
    /\ nextcode' = n
    /\ out' = o
    /\ err' = x

Raise(f, l, x) == GenSet("raised", f, l, ea, nextcode, out, x)

\* while ea!=BADADDR and ea<last: yield ea
Loop(f, l, e) ==
    IF e # BADADDR /\ e < l
    THEN GenSet("suspended", f, l, e, nextcode, Append(out, e), "")
    ELSE GenSet("done", f, l, e, nextcode, out, "")

\* while chunk and chunk.startEA < last: yield chunk.startEA
LoopChunk(f, l, c) ==
    IF c # NoChunk /\ c.startEA < l
    THEN GenSet("suspended", f, l, c.startEA, nextcode, Append(out, c.startEA), "")
    ELSE GenSet("done", f, l, c.startEA, nextcode, out, "")

\* (first, last)= getrange(args): unpacking anything but a pair is a ValueError
Resolved == getrange(args, sel, here)
Unpacks == Len(Resolved) = 2

\* calling an enumerator only creates the generator object
Call ==
    /\ pc = "nocall"
    /\ enum # "getrange"
    /\ pc' = "created"
    /\ UNCHANGED <<first, last, ea, nextcode, out, err>>
    /\ Frame

\* flags = args[i+1] if i+1<len(args) else 0, for the 0-based string index i
FlagsArgOk(i) == i + 2 <= Len(args) => args[i + 2].t \in {"int", "long"}
FlagsArg(i) == IF i + 2 <= Len(args) THEN args[i + 2].v[1] ELSE 0

TextsNext ==
    /\ enum = "Texts"
    /\ \/ /\ pc = "created"
          /\ LET r == Resolved
                 i == getstringpos(args)
             IN  IF ~Unpacks THEN Raise(first, last, "ValueError")
                 ELSE IF i < 0 THEN Raise(r[1], r[2], "missing searchstring")
                 ELSE IF ~FlagsArgOk(i) THEN Raise(r[1], r[2], "TypeError")
                 ELSE Loop(r[1], r[2], find_text(r[1], FlagsArg(i)))
       \/ /\ pc = "suspended"
          /\ Loop(first, last,
                  find_text(next_head(ea, last), FlagsArg(getstringpos(args))))
    /\ Frame

BinariesNext ==
    /\ enum = "Binaries"
    /\ \/ /\ pc = "created"
          /\ LET r == Resolved
             IN  IF ~Unpacks THEN Raise(first, last, "ValueError")
                 ELSE IF getstringpos(args) < 0
                      THEN Raise(r[1], r[2], "missing searchstring")
                 ELSE Loop(r[1], r[2], find_binary(r[1], r[2], 0))
       \/ /\ pc = "suspended"
          /\ Loop(first, last, find_binary(ea, last, SEARCH_NEXT))
    /\ Frame

\* one run of the NonFuncs loop from cursor e up to the next yield or the exit
RECURSIVE NonFuncsLoop(_, _)
NonFuncsLoop(e, l) ==
    IF ~(e # BADADDR /\ e < l) THEN [pc |-> "done", ea |-> e, nc |-> BADADDR]
    ELSE LET nc == find_code(e)
             thischunk == get_fchunk(e)
             nextchunk == get_next_fchunk(e)
         IN  IF thischunk # NoChunk THEN NonFuncsLoop(thischunk.endEA, l)
             ELSE IF isCode(getFlags(e))
                  THEN [pc |-> "yield_ea", ea |-> e, nc |-> BADADDR]
             ELSE IF nextchunk = NoChunk
                  THEN [pc |-> "done", ea |-> e, nc |-> BADADDR]
             ELSE IF nc < nextchunk.startEA
                  THEN [pc |-> "yield_nextcode", ea |-> e, nc |-> nc]
             ELSE NonFuncsLoop(nextchunk.endEA, l)

NonFuncsRun(f, l, e) ==
    LET g == NonFuncsLoop(e, l)
    IN  GenSet(g.pc, f, l, g.ea, g.nc,
               CASE g.pc = "yield_ea" -> Append(out, g.ea)
                 [] g.pc = "yield_nextcode" -> Append(out, g.nc)
                 [] OTHER -> out,
               "")

NonFuncsNext ==
    /\ enum = "NonFuncs"
    /\ \/ /\ pc = "created"
          /\ LET r == Resolved
             IN  IF ~Unpacks THEN Raise(first, last, "ValueError")
                 ELSE NonFuncsRun(r[1], r[2], r[1])
       \/ /\ pc = "yield_ea"
          /\ NonFuncsRun(first, last, next_head(ea, last))
       \/ /\ pc = "yield_nextcode"
          /\ NonFuncsRun(first, last, nextcode)
    /\ Frame

UndefsNext ==
    /\ enum = "Undefs"
    /\ \/ /\ pc = "created"
          /\ LET r == Resolved
             IN  IF ~Unpacks THEN Raise(first, last, "ValueError")
                 ELSE IF r[1] < r[2] /\ ~idcGlobals
                      THEN Raise(r[1], r[2], "NameError")
                 ELSE IF r[1] < r[2] /\ ~isUnknown(getFlags(r[1]))
                      THEN Loop(r[1], r[2], find_unknown(r[1]))
                 ELSE Loop(r[1], r[2], r[1])
       \/ /\ pc = "suspended"
          /\ Loop(first, last, find_unknown(ea))
    /\ Frame

\* for ea in range(first, last): yield ea
AddrsNext ==
    /\ enum = "Addrs"
    /\ \/ /\ pc = "created"
          /\ LET r == Resolved
             IN  IF ~Unpacks THEN Raise(first, last, "ValueError")
                 ELSE IF r[1] < r[2]
                      THEN GenSet("suspended", r[1], r[2], r[1], nextcode,
                                  Append(out, r[1]), "")
                 ELSE GenSet("done", r[1], r[2], ea, nextcode, out, "")
       \/ /\ pc = "suspended"
          /\ IF ea + 1 < last
             THEN GenSet("suspended", first, last, ea + 1, nextcode,
                         Append(out, ea + 1), "")
             ELSE GenSet("done", first, last, ea, nextcode, out, "")
    /\ Frame

BytesThatNext ==
    /\ enum = "BytesThat"
    /\ \/ /\ pc = "created"
          /\ LET r == Resolved
                 i == getcallablepos(args)
             IN  IF ~Unpacks THEN Raise(first, last, "ValueError")
                 ELSE IF i < 0 THEN Raise(r[1], r[2], "missing callable")
                 ELSE IF r[1] < r[2] /\ ~callable(args[i + 1].v[1], getFlags(r[1]))
                      THEN Loop(r[1], r[2], nextthat(r[1], r[2], args[i + 1].v[1]))
                 ELSE Loop(r[1], r[2], r[1])
       \/ /\ pc = "suspended"
          /\ Loop(first, last,
                  nextthat(ea, last, args[getcallablepos(args) + 1].v[1]))
    /\ Frame

HeadsNext ==
    /\ enum = "Heads"
    /\ \/ /\ pc = "created"
          /\ LET r == Resolved
             IN  IF ~Unpacks THEN Raise(first, last, "ValueError")
                 ELSE IF r[1] < r[2] /\ ~isHead(getFlags(r[1]))
                      THEN Loop(r[1], r[2], next_head(r[1], r[2]))
                 ELSE Loop(r[1], r[2], r[1])
       \/ /\ pc = "suspended"
          /\ Loop(first, last, next_head(ea, last))
    /\ Frame

NotTailsNext ==
    /\ enum = "NotTails"
    /\ \/ /\ pc = "created"
          /\ LET r == Resolved
             IN  IF ~Unpacks THEN Raise(first, last, "ValueError")
                 ELSE IF r[1] < r[2] /\ isTail(getFlags(r[1]))
                      THEN Loop(r[1], r[2], next_not_tail(r[1]))
                 ELSE Loop(r[1], r[2], r[1])
       \/ /\ pc = "suspended"
          /\ Loop(first, last, next_not_tail(ea))
    /\ Frame

\* chunk = get_fchunk(first); if not chunk: chunk = get_next_fchunk(first)
StartChunk(f) == IF get_fchunk(f) # NoChunk THEN get_fchunk(f) ELSE get_next_fchunk(f)

\* Funcs without the loop that skips leading tail chunks
SkipTails_none(c, l) == c

\* while chunk and chunk.startEA < last and (chunk.flags & FUNC_TAIL) != 0
RECURSIVE SkipTails(_, _)
SkipTails(c, l) ==
    IF c # NoChunk /\ c.startEA < l /\ c.tail
    THEN SkipTails(get_next_fchunk(c.startEA), l)
    ELSE c

FuncsNext ==
    /\ enum = "Funcs"
    /\ \/ /\ pc = "created"
          /\ LET r == Resolved
             IN  IF ~Unpacks THEN Raise(first, last, "ValueError")
                 ELSE LoopChunk(r[1], r[2], SkipTails(StartChunk(r[1]), r[2]))
       \/ /\ pc = "suspended"
          /\ LoopChunk(first, last, get_next_func(ea))
    /\ Frame

FChunksNext ==
    /\ enum = "FChunks"
    /\ \/ /\ pc = "created"
          /\ LET r == Resolved
             IN  IF ~Unpacks THEN Raise(first, last, "ValueError")
                 ELSE LoopChunk(r[1], r[2], StartChunk(r[1]))
       \/ /\ pc = "suspended"
          /\ LoopChunk(first, last, get_next_fchunk(ea))
    /\ Frame

\* getrange called on its own
GetrangeCall ==
    /\ enum = "getrange"
    /\ pc = "nocall"
    /\ pc' = "returned"
    /\ rng' = Resolved
    /\ UNCHANGED <<flags, chunks, matches, idcGlobals, sel, here, enum, args,
                   changes, first, last, ea, nextcode, out, err>>

\* ------------------------------------------------------------------ inputs
\* item classes are well-formed: a tail byte follows a head or another tail
FlagsOver(C) ==
    {f \in [Addr -> C] :
        /\ f[0] # "tail"
        /\ \A a \in Addr : (a > 0 /\ f[a] = "tail") => f[a - 1] # "unk"}

Blank == [a \in Addr |-> "unk"]

Disjoint(c, d) == c.endEA <= d.startEA \/ d.endEA <= c.startEA

\* at most n pairwise disjoint chunks
RECURSIVE Layouts(_)
Layouts(n) ==
    IF n = 0 THEN {{}}
    ELSE LET P == Layouts(n - 1)
         IN  P \cup {S \cup {c} : <<S, c>> \in
                        {x \in P \X Chunk : \A d \in x[1] : Disjoint(x[2], d)}}

\* a tail chunk belongs to a function, which has an entry chunk
ChunkLayouts ==
    {S \in Layouts(MaxChunks) : (\E c \in S : c.tail) => (\E c \in S : ~c.tail)}

NoSelection == <<FALSE, BADADDR, BADADDR>>
Selections == {NoSelection} \cup {<<TRUE, f, l>> : <<f, l>> \in {x \in Ea \X Ea : x[1] < x[2]}}

Enumerators == {"Texts", "NonFuncs", "Undefs", "Binaries", "Addrs", "BytesThat",
                "Heads", "NotTails", "Funcs", "FChunks"}

SampleTuples == {<<0, 1>>, <<1, BADADDR>>, <<0>>, <<0, 1, 2>>}

\* the values an argument list of getrange is drawn from
ArgVals ==
    {IntV(n) : n \in Ea} \cup {LongV(BADADDR), StrV, FuncV(1), NoneV, AreaV(1, BADADDR)}
        \cup {TupleV(t) : t \in SampleTuples}

ArgLists == UNION {[1 .. n -> ArgVals] : n \in 0 .. MaxArgs}

\* the five documented ways to pass a range, and a malformed tuple
RangeArgs ==
    {<<>>} \cup {<<IntV(a)>> : a \in Ea}
        \cup {<<IntV(a), IntV(b)>> : <<a, b>> \in Ea \X Ea}
        \cup {<<TupleV(t)>> : t \in SampleTuples}
        \cup {<<AreaV(1, BADADDR)>>}

\* what follows the range in the call
Extras(e) ==
    CASE e = "Texts" -> {<<>>, <<StrV>>, <<StrV, IntV(SEARCH_NEXT)>>, <<StrV, NoneV>>}
      [] e = "Binaries" -> {<<>>, <<StrV>>}
      [] e = "BytesThat" -> {<<>>} \cup {<<FuncV(k)>> : k \in Callables}
      [] OTHER -> {<<>>}

CallArgs(e) == {r \o x : <<r, x>> \in RangeArgs \X Extras(e)}

\* getrange reads the selection and the cursor only on these argument lists
ReadsUI(a) == Len(a) = 0 \/ a[1].t \notin {"tuple", "area_t", "int"}

InitGen ==
    /\ pc = "nocall"
    /\ rng = <<>>
    /\ first = 0
    /\ last = 0
    /\ ea = 0
    /\ nextcode = BADADDR
    /\ out = <<>>
    /\ err = ""
    /\ changes = 0

\* The part of the database and of the environment an enumerator reads; what
\* it never reads is held fixed.  Texts reads the item classes only through
\* next_head (head or not), NonFuncs through isCode and next_head.
InitDb(e) ==
    /\ flags \in CASE e = "Texts" -> FlagsOver({"code", "unk"})
                   [] e = "NonFuncs" -> FlagsOver({"code", "data", "unk"})
                   [] e \in {"Undefs", "BytesThat", "Heads", "NotTails"} -> FlagsOver(Classes)
                   [] OTHER -> {Blank}
    /\ chunks \in IF e \in {"NonFuncs", "Funcs", "FChunks"} THEN ChunkLayouts ELSE {{}}
    /\ matches \in IF e \in {"Texts", "Binaries"} THEN SUBSET Addr ELSE {{}}
    /\ idcGlobals \in IF e = "Undefs" THEN BOOLEAN ELSE {TRUE}

\* the selection and the cursor, held fixed where getrange does not use them
InitUI(a) ==
    IF ReadsUI(a)
    THEN sel \in Selections /\ here \in Addr /\ (sel[1] => here = 0)
    ELSE sel = NoSelection /\ here = 0

Init ==
    /\ enum \in Enumerators
    /\ args \in CallArgs(enum)
    /\ InitDb(enum)
    /\ InitUI(args)
    /\ InitGen

Next ==
    \/ Call
    \/ TextsNext
    \/ NonFuncsNext
    \/ UndefsNext
    \/ BinariesNext
    \/ AddrsNext
    \/ BytesThatNext
    \/ HeadsNext
    \/ NotTailsNext
    \/ FuncsNext
    \/ FChunksNext

Spec == Init /\ [][Next]_vars

InitRange ==
    /\ enum = "getrange"
    /\ args \in ArgLists
    /\ sel \in Selections
    /\ here \in Addr
    /\ flags = Blank
    /\ chunks = {}
    /\ matches = {}
    /\ idcGlobals = TRUE
    /\ InitGen

NextRange == GetrangeCall

SpecRange == InitRange /\ [][NextRange]_vars

\* ------------------------------------------------------- claims on getrange
IsPairTuple(x) == x.t = "tuple" /\ Len(x.v) = 2
FirstIsRange == Len(args) > 0 /\ args[1].t \in {"tuple", "area_t"}

\* C1 (as stated): whenever the argument list contains a two-element tuple,
\* in any position, getrange returns exactly that pair.
C1_AnyPosition ==
    (pc = "returned" /\ \E i \in 1 .. Len(args) : IsPairTuple(args[i]))
        => \E i \in 1 .. Len(args) : IsPairTuple(args[i]) /\ rng = args[i].v

\* C1 (amended): whenever the FIRST argument is a two-element tuple, getrange
\* returns exactly that pair, whatever the other arguments, the selection and
\* the cursor are.
C1_FirstPosition ==
    (pc = "returned" /\ Len(args) > 0 /\ IsPairTuple(args[1])) => rng = args[1].v

\* getrange returned a leading pair although an integer follows it and a
\* selection is active
C1_Witness ==
    /\ pc = "returned"
    /\ Len(args) = 2
    /\ IsPairTuple(args[1])
    /\ args[2].t = "int"
    /\ sel[1]
    /\ rng = args[1].v
    /\ rng # <<sel[2], sel[3]>>

C8_AlwaysAPair ==
    pc = "returned" => (Len(rng) = 2 /\ rng[1] \in Ea /\ rng[2] \in Ea)

\* ---------------------------------------------------- claims on enumerators
InitFuncs == Init /\ enum \in {"Funcs", "FChunks"}
NextFuncs == Call \/ FuncsNext \/ FChunksNext
SpecFuncs == InitFuncs /\ [][NextFuncs]_vars

InitSearch == Init /\ enum \in {"Texts", "Binaries", "BytesThat"}
NextSearch == Call \/ TextsNext \/ BinariesNext \/ BytesThatNext
SpecSearch == InitSearch /\ [][NextSearch]_vars

Started == pc \notin {"nocall", "created"}
Ended == pc \in {"done", "raised"}

\* the elements of a set of addresses in ascending order
RECURSIVE Ascending(_)
Ascending(S) ==
    IF S = {} THEN <<>>
    ELSE LET m == CHOOSE x \in S : \A y \in S : x <= y
         IN  <<m>> \o Ascending(S \ {m})

Yielded == {out[i] : i \in 1 .. Len(out)}

\* C3 (as stated): an enumerator whose resolved range has first = last yields
\* nothing, whatever the database holds.
C3_EmptyRangeYieldsNothing == (Started /\ Unpacks /\ first = last) => out = <<>>

NoStr == \A i \in 1 .. Len(args) : args[i].t # "str"
NoFunction == \A i \in 1 .. Len(args) : args[i].t # "function"
MissingRequired ==
    \/ enum \in {"Texts", "Binaries"} /\ NoStr
    \/ enum = "BytesThat" /\ NoFunction
MissingError == IF enum = "BytesThat" THEN "missing callable" ELSE "missing searchstring"

\* C4 (as stated): Texts / Binaries without a string and BytesThat without a
\* function have raised the missing-argument error as soon as they are
\* called, before any iteration step, for every range.
C4_RaisedOnceCalled ==
    (MissingRequired /\ Unpacks /\ pc # "nocall") => (pc = "raised" /\ err = MissingError)

\* C4 (amended): for every range, the call itself only creates the generator;
\* the first next() raises the missing-argument error, and no address is ever
\* yielded.
C4_RaisedByFirstNext ==
    (MissingRequired /\ Unpacks) =>
        /\ out = <<>>
        /\ pc \in {"nocall", "created", "raised"}
        /\ Started => (pc = "raised" /\ err = MissingError)

\* Texts without a search string has raised although the database holds a
\* match inside the range
C4_Witness ==
    /\ enum = "Texts"
    /\ NoStr
    /\ pc = "raised"
    /\ err = "missing searchstring"
    /\ out = <<>>
    /\ \E a \in matches : first <= a /\ a < last

\* C5 (as stated): once Undefs has ended, it has yielded exactly the undefined
\* addresses of [first, last), each once, in ascending order.
C5_UndefsExact ==
    (enum = "Undefs" /\ Unpacks /\ Ended) =>
        out = Ascending({a \in Addr : first <= a /\ a < last /\ isUnknown(flags[a])})

\* where idc's names are bound in the module's globals, Undefs is exact
UndefsExactIfBound == idcGlobals => C5_UndefsExact

\* C6: every address Funcs yields is the start of an entry chunk, never the
\* start of a chunk flagged FUNC_TAIL.
C6_FuncsYieldEntries ==
    enum = "Funcs" =>
        \A a \in Yielded : \E c \in chunks : c.startEA = a /\ ~c.tail

\* Funcs has yielded the two functions around a tail chunk and has ended
C6_Witness ==
    /\ enum = "Funcs"
    /\ pc = "done"
    /\ Len(out) = 2
    /\ \E t \in chunks : t.tail /\ out[1] < t.startEA /\ t.startEA < out[2]
                           /\ t.startEA < last

\* C7 (as stated): every address an enumerator yields lies in [first, last).
C7_YieldedInRange == \A a \in Yielded : first <= a /\ a < last

\* C10 (as stated): once NonFuncs has ended, it has yielded exactly the code
\* addresses of [first, last) that lie in no function chunk, each once, in
\* ascending order.
C10_NonFuncsExact ==
    (enum = "NonFuncs" /\ Unpacks /\ Ended) =>
        out = Ascending({a \in Addr : /\ first <= a /\ a < last
                                      /\ isCode(flags[a])
                                      /\ get_fchunk(a) = NoChunk})

\* ------------------------------------------- the consumer edits the database
\* Between two next() calls the loop body of the consumer may change the
\* database (MakeFunction, MakeCode, MakeName ... in the examples): one item
\* class, one function chunk or one search match per edit.
Suspended == pc \in {"created", "suspended", "yield_ea", "yield_nextcode"}

Edit ==
    /\ Suspended
    /\ changes < MaxChanges
    /\ changes' = changes + 1
    /\ UNCHANGED <<idcGlobals, sel, here, enum, args, pc, rng, first, last, ea,
                   nextcode, out, err>>

EditFlags ==
    /\ Edit
    /\ \E a \in Addr, k \in Classes :
          /\ k # flags[a]
          /\ [flags EXCEPT ![a] = k] \in FlagsOver(Classes)
          /\ flags' = [flags EXCEPT ![a] = k]
    /\ UNCHANGED <<chunks, matches>>

EditChunks ==
    /\ Edit
    /\ \E S \in ChunkLayouts :
          /\ Cardinality((S \ chunks) \cup (chunks \ S)) = 1
          /\ chunks' = S
    /\ UNCHANGED <<flags, matches>>

EditMatches ==
    /\ Edit
    /\ \E a \in Addr :
          matches' = IF a \in matches THEN matches \ {a} ELSE matches \cup {a}
    /\ UNCHANGED <<flags, chunks>>

\* calls that pass a range and the argument the enumerator requires
LiveArgs(e) ==
    {r \o x : <<r, x>> \in
        ({<<IntV(a)>> : a \in Addr}
            \cup {<<IntV(a), IntV(b)>> : <<a, b>> \in {y \in Addr \X Ea : y[1] < y[2]}})
        \X (CASE e \in {"Texts", "Binaries"} -> {<<StrV>>}
              [] e = "BytesThat" -> {<<FuncV(1)>>}
              [] OTHER -> {<<>>})}

InitLive ==
    /\ enum \in Enumerators
    /\ args \in LiveArgs(enum)
    /\ flags \in {[a \in Addr |-> k] : k \in {"code", "unk"}}
    /\ chunks = {}
    /\ matches \in {{}, Addr}
    /\ idcGlobals \in IF enum = "Undefs" THEN BOOLEAN ELSE {TRUE}
    /\ sel = NoSelection
    /\ here = 0
    /\ InitGen

NextLive == Next \/ EditFlags \/ EditChunks \/ EditMatches

\* the consumer keeps calling next() until the generator ends
SpecLive == InitLive /\ [][NextLive]_vars /\ WF_vars(Next)

\* C9 (as stated): repeated next() calls on any enumerator called with a range
\* and its required argument eventually reach normal termination, whatever
\* edits the database undergoes between the calls.
C9_EndsNormally == <>(pc = "done")

\* every generator ends, normally or by an exception
EndsSomehow == <>Ended

\* where idc's names are bound, every generator ends normally
EndsNormallyIfBound == idcGlobals => <>(pc = "done")
====
